---- MODULE Spec2Model ----
(***************************************************************************)
(* Model of save_on_write (src/lib.rs): HashListener, HashListenerLock and  *)
(* SoW.  The value type T is instantiated with a small serialisable struct  *)
(*     struct Item { name: String, age: u8, tags: BTreeMap<(u8,u8), u8> }   *)
(* whose derived Hash covers all fields and whose JSON encoding fails when  *)
(* the map is not empty (serde_json refuses non-string keys).  The file     *)
(* system is a map from paths to file contents; contents are sequences of   *)
(* chunks of JSON text.                                                     *)
(***************************************************************************)
EXTENDS Integers, Sequences, FiniteSets, TLC

\* ------------------------------------------------------------------ bounds
MaxAge == 2
MaxTags == 1
HashModulus == 2

\* ------------------------------------------------------------ the value T
Names == {"Joe"}

Paths == {"p.json"}

Value == [name : Names, age : 0..MaxAge, tags : 0..MaxTags]

NameCode(n) == IF n = "Joe" THEN 1 ELSE IF n = "Ann" THEN 2 ELSE 3

\* DefaultHasher: the fields are fed in declaration order into one running
\* state; the digest is narrowed from 64 bits to HashModulus values.
HasherWrite(h, x) == (h * 31 + x) % HashModulus

Hash(v) == HasherWrite(HasherWrite(HasherWrite(0, NameCode(v.name)), v.age), v.tags)

\* ------------------------------------------------- serde_json encode/decode
DigitTok == <<"0", "1", "2", "3", "4", "5", "6", "7", "8", "9">>

DigitSet == {DigitTok[i] : i \in 1..10}

\* The tokens of the object's syntax; any other non-digit token is a string.
Punct == {"{name:", ",age:", ",tags:{}}"}

RECURSIVE Digits(_)
Digits(n) == IF n < 10 THEN <<DigitTok[n + 1]>>
             ELSE Digits(n \div 10) \o <<DigitTok[(n % 10) + 1]>>

DigitVal(d) == CHOOSE i \in 0..9 : DigitTok[i + 1] = d

RECURSIVE ParseDigits(_)
ParseDigits(s) == IF Len(s) = 0 THEN 0
                  ELSE ParseDigits(SubSeq(s, 1, Len(s) - 1)) * 10 + DigitVal(s[Len(s)])

\* mutant of Encode: the closing chunk never reaches the output.
Encode_unflushed(v) ==
    IF v.tags > 0
    THEN [ok |-> FALSE, bytes |-> <<>>]
    ELSE [ok |-> TRUE, bytes |-> <<"{name:", v.name, ",age:">> \o Digits(v.age)]

\* serde_json::to_string(&item): Err when the map has (non-string) keys.
Encode(v) ==
    IF v.tags > 0
    THEN [ok |-> FALSE, bytes |-> <<>>]
    ELSE [ok |-> TRUE,
          bytes |-> <<"{name:", v.name, ",age:">> \o Digits(v.age) \o <<",tags:{}}">>]

NoValue == [name |-> "Joe", age |-> 0, tags |-> 0]

\* serde_json::from_reader::<T>: Ok only for a complete object of the struct
\* whose age fits a u8.
Decode(b) ==
    LET n == Len(b)
        shape == /\ n >= 5
                 /\ b[1] = "{name:"
                 /\ b[2] \notin Punct \cup DigitSet
                 /\ b[3] = ",age:"
                 /\ \A i \in 4..(n - 1) : b[i] \in DigitSet
                 /\ (n > 5 => b[4] # "0")
                 /\ b[n] = ",tags:{}}"
    IN  IF shape /\ ParseDigits(SubSeq(b, 4, n - 1)) <= 255
        THEN [ok |-> TRUE,
              value |-> [name |-> b[2], age |-> ParseDigits(SubSeq(b, 4, n - 1)), tags |-> 0]]
        ELSE [ok |-> FALSE, value |-> NoValue]

\* ------------------------------------------------------------- file system
Missing == [exists |-> FALSE, bytes |-> <<>>]

FileOf(b) == [exists |-> TRUE, bytes |-> b]

\* std::fs::write(path, bytes): k = Len(bytes) is success; k = -1 is a failure
\* to create/open (file untouched); 0 <= k < Len(bytes) is a failure after the
\* file was created/truncated and k tokens were written.
WriteOutcomes(b) == (-1)..Len(b)

\* mutant of FsWrite: the file is opened for append instead of truncated.
FsWrite_append(f, p, b, k) ==
    IF k = -1 THEN f
    ELSE [f EXCEPT ![p] = FileOf(f[p].bytes \o SubSeq(b, 1, k))]

FsWrite(f, p, b, k) ==
    IF k = -1 THEN f
    ELSE [f EXCEPT ![p] = FileOf(SubSeq(b, 1, k))]

WriteOk(b, k) == k = Len(b)

\* what the environment does to an open-and-read of an existing file
ReadFaults == {"none", "open_fault", "read_fault"}

\* ---------------------------------------------------------------- state
VARIABLES
    store,            \* "none" | "listener" (HashListener::new) | "sow" (SoW)
    item,             \* HashListener.item
    method,           \* HashListener.method: [kind, pth]
    lockState,        \* "none" | "live" | "dropped": the HashListenerLock
    possible_change,  \* HashListenerLock.possible_change
    hash,             \* HashListenerLock.hash
    fs,               \* the file system: path -> file
    status,           \* "running" | "panicked" | "aborted"
    \* history of the current guard scope and of the last operation
    openItem,         \* the item when the current guard was created
    mutAccess,        \* the scope took a mutable reference
    wrote,            \* the scope stored a different content through it
    cbArgs,           \* values handed to method by the current guard's drop
    dropChecks,       \* detected_change() calls made by drop for the current guard
    lastOp,           \* the operation executed last
    opPath,           \* its path argument ("-" when it has none)
    result,           \* what it returned
    io,               \* its I/O outcome: "none" (no I/O), "ok", "not_found",
                      \* "open_fault", "read_fault", "write_failed"
    roundTrip,        \* it is a new_from_file right after an Ok new_from_item
                      \* on the same path
    \* history of the listener since it was constructed
    prevOpen,         \* <<the item the previous guard was opened on>> when that
                      \* guard's exit invoked the callback, else <<>> (recorded
                      \* in SpecScopes only)
    hist              \* "clean"; for a store "save_failed" once the write of a
                      \* save failed at a guard exit, else "unclean" once a
                      \* collision suppressed a save or another write to its
                      \* path failed; for a listener "cb_modified" once a
                      \* callback changed the item it was handed

listenerVars == <<store, item, method>>

lockVars == <<lockState, possible_change, hash>>

scopeVars == <<openItem, mutAccess, wrote, cbArgs, dropChecks>>

histVars == <<prevOpen, hist>>

vars == <<store, item, method, lockState, possible_change, hash, fs, status,
          openItem, mutAccess, wrote, cbArgs, dropChecks, lastOp, opPath,
          result, io, roundTrip, prevOpen, hist>>

NoMethod == [kind |-> "nop", pth |-> "-"]

Encodable == {v \in Value : Encode(v).ok}

InitContents == {Missing, FileOf(<<>>)} \cup {FileOf(Encode(v).bytes) : v \in Encodable}

\* No guard, and the scope history cleared.
NoLock ==
    /\ lockState' = "none"
    /\ possible_change' = FALSE
    /\ hash' = 0
    /\ openItem' = NoValue
    /\ mutAccess' = FALSE
    /\ wrote' = FALSE
    /\ cbArgs' = <<>>
    /\ dropChecks' = 0
    /\ prevOpen' = <<>>
    /\ hist' = "clean"

\* lock keeps no record of the guard scope before it ...
LockHistory ==
    /\ prevOpen' = <<>>
    /\ hist' = hist

\* ... except in SpecScopes, where it notes the item that scope was opened on
\* when its exit invoked the callback.
LockHistoryTracked ==
    /\ prevOpen' = IF lockState = "dropped" /\ Len(cbArgs) = 1 THEN <<openItem>> ELSE <<>>
    /\ hist' = hist

\* What a guard's exit adds to the listener's history: the callback returned
\* item `after` (ran = it was invoked) and its I/O ended as iores.
HistAfterDrop(ran, after, iores) ==
    IF store = "sow"
    THEN IF iores = "write_failed" THEN "save_failed"
         ELSE IF hist = "clean" /\ ~ran /\ item # openItem THEN "unclean"
         ELSE hist
    ELSE IF ran /\ after # item THEN "cb_modified" ELSE hist

Did(op, p, res, iores) ==
    /\ lastOp' = op
    /\ opPath' = p
    /\ result' = res
    /\ io' = iores
    /\ roundTrip' = FALSE

Init ==
    /\ store = "none"
    /\ item = NoValue
    /\ method = NoMethod
    /\ lockState = "none"
    /\ possible_change = FALSE
    /\ hash = 0
    /\ fs \in [Paths -> InitContents]
    /\ status = "running"
    /\ openItem = NoValue
    /\ mutAccess = FALSE
    /\ wrote = FALSE
    /\ cbArgs = <<>>
    /\ dropChecks = 0
    /\ lastOp = "init"
    /\ opPath = "-"
    /\ result = "()"
    /\ io = "none"
    /\ roundTrip = FALSE
    /\ prevOpen = <<>>
    /\ hist = "clean"

\* --------------------------------------------------------- HashListener
\* HashListener::new(item, method): stores both, nothing else.
New(v, kind) ==
    /\ status = "running"
    /\ lockState # "live"
    /\ store' = "listener"
    /\ item' = v
    /\ method' = [kind |-> kind, pth |-> "-"]
    /\ NoLock
    /\ Did("new", "-", "Ok", "none")
    /\ UNCHANGED <<fs, status>>

\* mutant of Lock: the hasher is finished before the item is fed to it.
Lock_hash_of_nothing ==
    /\ status = "running"
    /\ store # "none"
    /\ lockState # "live"
    /\ lockState' = "live"
    /\ possible_change' = FALSE
    /\ hash' = 0
    /\ openItem' = item
    /\ mutAccess' = FALSE
    /\ wrote' = FALSE
    /\ cbArgs' = <<>>
    /\ dropChecks' = 0
    /\ Did("lock", "-", "()", "none")
    /\ LockHistory
    /\ UNCHANGED <<store, item, method, fs, status>>

\* mutant of Lock: a guard can be taken while another one is live (a shared
\* borrow in place of the exclusive one).
Lock_while_locked ==
    /\ status = "running"
    /\ store # "none"
    /\ lockState' = "live"
    /\ possible_change' = FALSE
    /\ hash' = Hash(item)
    /\ openItem' = item
    /\ mutAccess' = FALSE
    /\ wrote' = FALSE
    /\ cbArgs' = <<>>
    /\ dropChecks' = 0
    /\ Did("lock", "-", "()", "none")
    /\ LockHistory
    /\ UNCHANGED <<store, item, method, fs, status>>

\* mutant of LockCore: a guard taken after another one keeps that one's
\* baseline instead of hashing the item again.
LockCore_stale_baseline ==
    /\ status = "running"
    /\ store # "none"
    /\ lockState # "live"
    /\ lockState' = "live"
    /\ possible_change' = FALSE
    /\ hash' = IF lockState = "dropped" THEN hash ELSE Hash(item)
    /\ openItem' = item
    /\ mutAccess' = FALSE
    /\ wrote' = FALSE
    /\ cbArgs' = <<>>
    /\ dropChecks' = 0
    /\ Did("lock", "-", "()", "none")
    /\ UNCHANGED <<store, item, method, fs, status>>

\* mutant of LockCore: the baseline is the hash of the value last handed to
\* the callback.
LockCore_baseline_from_callback ==
    /\ status = "running"
    /\ store # "none"
    /\ lockState # "live"
    /\ lockState' = "live"
    /\ possible_change' = FALSE
    /\ hash' = IF lockState = "dropped" /\ Len(cbArgs) = 1
               THEN Hash(cbArgs[1]) ELSE Hash(item)
    /\ openItem' = item
    /\ mutAccess' = FALSE
    /\ wrote' = FALSE
    /\ cbArgs' = <<>>
    /\ dropChecks' = 0
    /\ Did("lock", "-", "()", "none")
    /\ UNCHANGED <<store, item, method, fs, status>>

\* HashListener::lock(&mut self): hashes the item as it stands.  The guard
\* borrows the listener mutably, so no second guard while one is live.
LockCore ==
    /\ status = "running"
    /\ store # "none"
    /\ lockState # "live"
    /\ lockState' = "live"
    /\ possible_change' = FALSE
    /\ hash' = Hash(item)
    /\ openItem' = item
    /\ mutAccess' = FALSE
    /\ wrote' = FALSE
    /\ cbArgs' = <<>>
    /\ dropChecks' = 0
    /\ Did("lock", "-", "()", "none")
    /\ UNCHANGED <<store, item, method, fs, status>>

Lock == LockCore /\ LockHistory

LockTracked == LockCore /\ LockHistoryTracked

\* ----------------------------------------------------- HashListenerLock
detected_possible_change(pc) == pc

\* mutants of detected_change: the early return inverted; the stored hash
\* compared with itself; the flag alone deciding.
detected_change_early_true(pc, h, it) ==
    IF ~pc THEN TRUE
    ELSE h # Hash(it)

detected_change_self_compare(pc, h, it) ==
    IF ~pc THEN FALSE
    ELSE h # h

detected_change_flag_only(pc, h, it) == pc

\* a further mutant: equal hashes are followed by an equality check against
\* the value the guard was opened on.
detected_change_eq_fallback(pc, h, it) ==
    IF ~pc THEN FALSE
    ELSE h # Hash(it) \/ it # openItem

\* a further mutant: a failed save is remembered and retried at the next exit.
detected_change_retry_failed_save(pc, h, it) ==
    IF hist = "save_failed" THEN TRUE
    ELSE IF ~pc THEN FALSE
    ELSE h # Hash(it)

detected_change(pc, h, it) ==
    IF ~pc THEN FALSE
    ELSE h # Hash(it)

BoolStr(b) == IF b THEN "true" ELSE "false"

DetectedPossibleChange ==
    /\ status = "running"
    /\ lockState = "live"
    /\ Did("detected_possible_change", "-",
           BoolStr(detected_possible_change(possible_change)), "none")
    /\ UNCHANGED <<listenerVars, lockVars, scopeVars, histVars, fs, status>>

DetectedChange ==
    /\ status = "running"
    /\ lockState = "live"
    /\ Did("detected_change", "-",
           BoolStr(detected_change(possible_change, hash, item)), "none")
    /\ UNCHANGED <<listenerVars, lockVars, scopeVars, histVars, fs, status>>

\* Deref::deref: a shared reference to the item.
Deref ==
    /\ status = "running"
    /\ lockState = "live"
    /\ Did("deref", "-", "()", "none")
    /\ UNCHANGED <<listenerVars, lockVars, scopeVars, histVars, fs, status>>

\* mutant of DerefMut: the callback is run at once on every mutable access.
DerefMut_eager_callback(v) ==
    /\ status = "running"
    /\ lockState = "live"
    /\ possible_change' = TRUE
    /\ item' = v
    /\ mutAccess' = TRUE
    /\ wrote' = (wrote \/ v # item)
    /\ cbArgs' = Append(cbArgs, v)
    /\ Did("deref_mut", "-", "()", "none")
    /\ UNCHANGED <<store, method, lockState, hash, openItem, dropChecks, fs, status,
                   histVars>>

\* mutant of DerefMut: the flag is set only when the caller stores a
\* different value.
DerefMut_flag_on_write(v) ==
    /\ status = "running"
    /\ lockState = "live"
    /\ possible_change' = (possible_change \/ v # item)
    /\ item' = v
    /\ mutAccess' = TRUE
    /\ wrote' = (wrote \/ v # item)
    /\ Did("deref_mut", "-", "()", "none")
    /\ UNCHANGED <<store, method, lockState, hash, openItem, cbArgs, dropChecks,
                   fs, status, histVars>>

\* DerefMut::deref_mut: sets the flag and hands out &mut item; the caller
\* stores v through it (v = item: the caller writes nothing new).
DerefMut(v) ==
    /\ status = "running"
    /\ lockState = "live"
    /\ possible_change' = TRUE
    /\ item' = v
    /\ mutAccess' = TRUE
    /\ wrote' = (wrote \/ v # item)
    /\ Did("deref_mut", "-", "()", "none")
    /\ UNCHANGED <<store, method, lockState, hash, openItem, cbArgs, dropChecks,
                   fs, status, histVars>>

\* mutant of CallMethod: the save closure unwraps the write's result.
CallMethod_unwrap_write(m, it, f, k) ==
    IF m.kind = "save"
    THEN LET enc == Encode(it) IN
         IF ~enc.ok
         THEN [item |-> it, fs |-> f, panic |-> TRUE, io |-> "none"]
         ELSE [item |-> it, fs |-> FsWrite(f, m.pth, enc.bytes, k),
               panic |-> ~WriteOk(enc.bytes, k),
               io |-> IF WriteOk(enc.bytes, k) THEN "ok" ELSE "write_failed"]
    ELSE IF m.kind = "modify"
    THEN [item |-> [it EXCEPT !.age = (it.age + 1) % (MaxAge + 1)], fs |-> f,
          panic |-> FALSE, io |-> "none"]
    ELSE [item |-> it, fs |-> f, panic |-> FALSE, io |-> "none"]

\* method(&mut item) for the three callbacks the model installs:
\*   "nop"    |_| {}                      (the closure of the doc example and test)
\*   "modify" a caller's closure that writes to the item it is handed
\*   "save"   the closure of SoW: write(pth, to_string(item).unwrap()), result ignored
\* k is what the environment does to the write.
CallMethod(m, it, f, k) ==
    IF m.kind = "save"
    THEN LET enc == Encode(it) IN
         IF ~enc.ok
         THEN [item |-> it, fs |-> f, panic |-> TRUE, io |-> "none"]
         ELSE [item |-> it, fs |-> FsWrite(f, m.pth, enc.bytes, k), panic |-> FALSE,
               io |-> IF WriteOk(enc.bytes, k) THEN "ok" ELSE "write_failed"]
    ELSE IF m.kind = "modify"
    THEN [item |-> [it EXCEPT !.age = (it.age + 1) % (MaxAge + 1)], fs |-> f,
          panic |-> FALSE, io |-> "none"]
    ELSE [item |-> it, fs |-> f, panic |-> FALSE, io |-> "none"]

ExitPaths == {"end_of_scope", "early_return", "unwind"}

\* The caller after the guard's scope was left by `exit` and drop did or did
\* not panic: a panic while unwinding aborts the process.
StatusAfter(exit, panic) ==
    IF panic
    THEN (IF exit = "unwind" THEN "aborted" ELSE "panicked")
    ELSE (IF exit = "unwind" THEN "panicked" ELSE "running")

\* Drop::drop of the guard, run when the guard's scope is left by `exit`.
Drop(exit) ==
    /\ status = "running"
    /\ lockState = "live"
    /\ dropChecks' = dropChecks + 1
    /\ IF ~detected_change(possible_change, hash, item)
       THEN /\ UNCHANGED <<item, fs, cbArgs>>
            /\ Did("drop", "-", "()", "none")
            /\ status' = StatusAfter(exit, FALSE)
            /\ hist' = HistAfterDrop(FALSE, item, "none")
       ELSE \E k \in WriteOutcomes(Encode(item).bytes) :
              LET r == CallMethod(method, item, fs, k) IN
              /\ cbArgs' = Append(cbArgs, item)
              /\ item' = r.item
              /\ fs' = r.fs
              /\ Did("drop", "-", IF r.panic THEN "panic" ELSE "()", r.io)
              /\ status' = StatusAfter(exit, r.panic)
              /\ hist' = HistAfterDrop(TRUE, r.item, r.io)
    /\ lockState' = "dropped"
    /\ UNCHANGED <<store, method, possible_change, hash, openItem, mutAccess, wrote,
                   prevOpen>>

\* mutant of DropListener: a Drop impl that runs the callback a last time.
DropListener_final_flush ==
    /\ status = "running"
    /\ store # "none"
    /\ lockState # "live"
    /\ store' = "none"
    /\ item' = NoValue
    /\ method' = NoMethod
    /\ lockState' = "none"
    /\ possible_change' = FALSE
    /\ hash' = 0
    /\ openItem' = NoValue
    /\ mutAccess' = FALSE
    /\ wrote' = FALSE
    /\ cbArgs' = <<item>>
    /\ dropChecks' = 0
    /\ prevOpen' = <<>>
    /\ hist' = "clean"
    /\ \E k \in WriteOutcomes(Encode(item).bytes) :
          /\ fs' = CallMethod(method, item, fs, k).fs
          /\ Did("drop_listener", "-", "()", CallMethod(method, item, fs, k).io)
    /\ UNCHANGED status

\* The listener (or the store holding it) goes out of scope: no Drop impl.
DropListener ==
    /\ status = "running"
    /\ store # "none"
    /\ lockState # "live"
    /\ store' = "none"
    /\ item' = NoValue
    /\ method' = NoMethod
    /\ NoLock
    /\ Did("drop_listener", "-", "()", "none")
    /\ UNCHANGED <<fs, status>>

\* ------------------------------------------------------------------ SoW
\* What a constructor call leaves behind: on Ok a fresh store and no guard,
\* on an error nothing new (what the caller held before is untouched).
Constructed(op, p, res, iores, v, f) ==
    /\ lastOp' = op
    /\ opPath' = p
    /\ result' = res
    /\ io' = iores
    /\ roundTrip' = (op = "new_from_file" /\ lastOp = "new_from_item"
                     /\ result = "Ok" /\ opPath = p)
    /\ fs' = f
    /\ IF res = "Ok"
       THEN /\ store' = "sow"
            /\ item' = v
            /\ method' = [kind |-> "save", pth |-> p]
            /\ NoLock
       ELSE /\ UNCHANGED <<listenerVars, lockVars, scopeVars, prevOpen>>
            /\ hist' = IF store = "sow" /\ method.pth = p /\ iores = "write_failed"
                           /\ hist = "clean"
                        THEN "unclean" ELSE hist
    /\ UNCHANGED status

\* SoW::new_from_file(file)
NewFromFile(p, fault) ==
    /\ status = "running"
    /\ lockState # "live"
    /\ IF ~fs[p].exists
       THEN Constructed("new_from_file", p, "ReadError", "not_found", NoValue, fs)
       ELSE IF fault = "open_fault"
       THEN Constructed("new_from_file", p, "ReadError", "open_fault", NoValue, fs)
       ELSE IF fault = "read_fault"
       THEN Constructed("new_from_file", p, "SerdeError", "read_fault", NoValue, fs)
       ELSE LET d == Decode(fs[p].bytes) IN
            IF ~d.ok
            THEN Constructed("new_from_file", p, "SerdeError", "ok", NoValue, fs)
            ELSE Constructed("new_from_file", p, "Ok", "ok", d.value, fs)

\* mutant of NewFromItem: the result of the initial write is dropped.
NewFromItem_ignore_write_error(v, p, k) ==
    /\ status = "running"
    /\ lockState # "live"
    /\ LET enc == Encode(v) IN
       IF ~enc.ok
       THEN Constructed("new_from_item", p, "SerdeError", "none", v, fs)
       ELSE Constructed("new_from_item", p, "Ok",
                        IF WriteOk(enc.bytes, k) THEN "ok" ELSE "write_failed", v,
                        FsWrite(fs, p, enc.bytes, k))

\* SoW::new_from_item(item, dest)
NewFromItem(v, p, k) ==
    /\ status = "running"
    /\ lockState # "live"
    /\ LET enc == Encode(v) IN
       IF ~enc.ok
       THEN Constructed("new_from_item", p, "SerdeError", "none", v, fs)
       ELSE IF ~WriteOk(enc.bytes, k)
       THEN Constructed("new_from_item", p, "ReadError", "write_failed", v,
                        FsWrite(fs, p, enc.bytes, k))
       ELSE Constructed("new_from_item", p, "Ok", "ok", v, FsWrite(fs, p, enc.bytes, k))

\* ------------------------------------------------------------ the program
ListenerMethods == {"nop", "modify"}

Next ==
    \/ \E v \in Value, kind \in ListenerMethods : New(v, kind)
    \/ \E p \in Paths, fault \in ReadFaults : NewFromFile(p, fault)
    \/ \E v \in Value, p \in Paths :
          \E k \in WriteOutcomes(Encode(v).bytes) : NewFromItem(v, p, k)
    \/ Lock
    \/ Deref
    \/ \E v \in Value : DerefMut(v)
    \/ DetectedChange
    \/ DetectedPossibleChange
    \/ \E exit \in ExitPaths : Drop(exit)
    \/ DropListener

Spec == Init /\ [][Next]_vars

\* The operations of a plain HashListener alone, lock recording the scope
\* before it.
NextScopes ==
    \/ \E v \in Value, kind \in ListenerMethods : New(v, kind)
    \/ LockTracked
    \/ Deref
    \/ \E v \in Value : DerefMut(v)
    \/ DetectedChange
    \/ DetectedPossibleChange
    \/ \E exit \in ExitPaths : Drop(exit)
    \/ DropListener

SpecScopes == Init /\ [][NextScopes]_vars

\* ================================================================ claims
GuardOpen == lockState = "live"

GuardClosed == lockState = "dropped"

\* C1: a guard scope that takes no mutable access (reads only, or no access)
\* sees detected_change() false at every point of the scope, every call of it
\* returns false, and the callback is not invoked when the scope exits; this
\* for any value and any number of successive scopes.
C1_ReadOnlyScopeNeverFires ==
    ((GuardOpen \/ GuardClosed) /\ ~mutAccess) =>
        /\ (GuardOpen => ~detected_change(possible_change, hash, item))
        /\ (lastOp = "detected_change" => result = "false")
        /\ cbArgs = <<>>
        /\ item = openItem

C1_Witness ==
    /\ GuardClosed
    /\ lastOp = "drop"
    /\ ~mutAccess
    /\ cbArgs = <<>>
    /\ item # NoValue

\* C2: when a guard took mutable access and the value's hash differs from the
\* hash of the value the guard was opened on, detected_change() is true, and
\* the scope's exit invokes the callback exactly once, with the value as it is
\* at exit.
C2_ChangedScopeFiresOnce ==
    [][(GuardOpen /\ mutAccess /\ Hash(item) # Hash(openItem)) =>
          /\ detected_change(possible_change, hash, item)
          /\ (lastOp' = "detected_change" => result' = "true")
          /\ (lastOp' = "drop" => cbArgs = <<>> /\ cbArgs' = <<item>>)]_vars

C2_Witness ==
    /\ GuardClosed
    /\ lastOp = "drop"
    /\ mutAccess
    /\ Len(cbArgs) = 1
    /\ Hash(cbArgs[1]) # Hash(openItem)
    /\ cbArgs[1] # openItem

\* C3: when a guard took mutable access and the value at exit has the hash it
\* had at guard creation, whatever was stored in between,
\* detected_possible_change() is true, detected_change() is false and the exit
\* does not invoke the callback (and so changes neither value nor file).
C3_RestoredScopeDoesNotFire ==
    [][(GuardOpen /\ mutAccess /\ Hash(item) = Hash(openItem)) =>
          /\ detected_possible_change(possible_change)
          /\ ~detected_change(possible_change, hash, item)
          /\ (lastOp' = "detected_possible_change" => result' = "true")
          /\ (lastOp' = "detected_change" => result' = "false")
          /\ (lastOp' = "drop" => cbArgs' = <<>> /\ item' = item /\ fs' = fs)]_vars

C3_Witness ==
    /\ GuardClosed
    /\ lastOp = "drop"
    /\ mutAccess
    /\ wrote
    /\ item = openItem
    /\ cbArgs = <<>>

\* C4: drop's change check has not run while the guard is live and has run
\* exactly once when the guard is gone, on every exit path; the callback has
\* not been invoked while the guard is live and at most once afterwards.
C4_CheckOncePerGuard ==
    /\ (GuardOpen => dropChecks = 0 /\ cbArgs = <<>>)
    /\ (GuardClosed => dropChecks = 1 /\ Len(cbArgs) <= 1)

\* the scope was left by unwinding and its drop invoked the callback
C4_Witness ==
    /\ GuardClosed
    /\ status = "panicked"
    /\ result = "()"
    /\ dropChecks = 1
    /\ Len(cbArgs) = 1

SowStore == store = "sow"

SavedFile == FileOf(Encode(item).bytes)

\* C5: for a SoW store on path p, when a guard scope exits with a content
\* hash different from the hash at guard creation and the save's write does
\* not fail, the whole content of the file at p is the encoding of the value
\* in memory at exit, and decoding the file yields that value.
C5_ChangedScopeSavesValue ==
    (/\ SowStore
     /\ GuardClosed
     /\ lastOp = "drop"
     /\ mutAccess
     /\ Hash(item) # Hash(openItem)
     /\ result # "panic"
     /\ io # "write_failed") =>
        /\ cbArgs = <<item>>
        /\ fs[method.pth] = SavedFile
        /\ Decode(fs[method.pth].bytes) = [ok |-> TRUE, value |-> item]

C5_Witness ==
    /\ SowStore
    /\ GuardClosed
    /\ lastOp = "drop"
    /\ io = "ok"
    /\ item # openItem
    /\ Decode(fs[method.pth].bytes).value = item

\* C6: for a SoW store on path p, a guard scope that exits with the content
\* hash it had at guard creation (read-only, no access, or a mutable access
\* that leaves the hash unchanged) does not invoke the save callback and
\* leaves the file system as it was.
C6_UnchangedScopeLeavesFile ==
    [][(SowStore /\ GuardOpen /\ Hash(item) = Hash(openItem) /\ lastOp' = "drop") =>
          /\ fs' = fs
          /\ cbArgs' = <<>>
          /\ io' = "none"]_vars

\* a no-op mutation exits while the file does not hold the value
C6_Witness ==
    /\ SowStore
    /\ GuardClosed
    /\ lastOp = "drop"
    /\ mutAccess
    /\ Hash(item) = Hash(openItem)
    /\ cbArgs = <<>>
    /\ fs[method.pth] # SavedFile

IoFaults == {"open_fault", "read_fault"}

\* C7: a successful new_from_item(x, p) followed at once by new_from_file(p),
\* the environment injecting no open or read fault, succeeds with a value of
\* the same content hash as x and leaves the file system as it was.
C7_RoundTrip ==
    [][(/\ lastOp = "new_from_item"
        /\ result = "Ok"
        /\ lastOp' = "new_from_file"
        /\ opPath' = opPath
        /\ io' \notin IoFaults) =>
          /\ result' = "Ok"
          /\ Hash(item') = Hash(item)
          /\ fs' = fs]_vars

C7_Witness ==
    /\ roundTrip
    /\ lastOp = "new_from_file"
    /\ result = "Ok"
    /\ SowStore
    /\ item # NoValue

\* C8 (as claimed): new_from_file returns ReadError when the file cannot be
\* opened or read, the decode error when its bytes cannot be decoded, and on
\* either error creates no store and leaves the file as it was.
C8_Claim_ErrorKinds ==
    [][lastOp' = "new_from_file" =>
          /\ (io' \in {"not_found", "open_fault", "read_fault"} => result' = "ReadError")
          /\ (io' = "ok" /\ ~Decode(fs[opPath'].bytes).ok => result' = "SerdeError")
          /\ (result' # "Ok" => UNCHANGED <<listenerVars, lockVars, fs>>)]_vars

\* C9: new_from_item(item, dest) returns Ok only with the encoding of item
\* written to dest in full (the file holds it when the store is returned, the
\* store is bound to dest and has no guard); when encoding or the write fails
\* it returns an error and creates no store.
C9_NewFromItemWritesFirst ==
    [][lastOp' = "new_from_item" =>
          /\ (result' = "Ok" =>
                /\ store' = "sow"
                /\ method' = [kind |-> "save", pth |-> opPath']
                /\ lockState' = "none"
                /\ Encode(item').ok
                /\ fs'[opPath'] = FileOf(Encode(item').bytes))
          /\ (io' \in {"none", "write_failed"} => result' \in {"SerdeError", "ReadError"})
          /\ (result' # "Ok" => UNCHANGED <<listenerVars, lockVars>>)]_vars

C9_Witness ==
    /\ lastOp = "new_from_item"
    /\ result = "Ok"
    /\ SowStore
    /\ fs[opPath] = SavedFile
    /\ item # NoValue

\* C10: when the write of the save callback fails at guard exit, drop returns
\* normally (no panic, no abort), the value in memory is still the mutated
\* value handed to the callback, and the store accepts a further guard.
C10_WriteFailureSwallowed ==
    (SowStore /\ lastOp = "drop" /\ io = "write_failed") =>
        /\ result = "()"
        /\ status # "aborted"
        /\ GuardClosed
        /\ cbArgs = <<item>>
        /\ Hash(item) # Hash(openItem)
        /\ (status = "running" => ENABLED Lock)

C10_Witness ==
    /\ SowStore
    /\ lastOp = "drop"
    /\ io = "write_failed"
    /\ status = "running"
    /\ fs[method.pth] # SavedFile

\* C11 (as claimed): whatever fails in the save performed at guard exit, a
\* failure to encode like a failure to write, the exit of a SoW store's guard
\* completes normally: drop does not panic.
C11_Claim_NoSaveFailureSurfaces ==
    (SowStore /\ lastOp = "drop") => (result = "()" /\ status # "aborted")

GuardOps == {"lock", "deref", "deref_mut", "detected_change", "detected_possible_change"}

\* C12: the callback is invoked by a guard's exit only.  new, lock, read
\* access, mutable access, the two queries and the drop of the listener or
\* store invoke no callback and do no I/O; new leaves no guard (nothing is
\* hashed); only drop and new_from_item change a file.
C12_CallbackOnlyAtGuardExit ==
    [][lastOp' # "drop" =>
          /\ cbArgs' \in {cbArgs, <<>>}
          /\ (lastOp' # "new_from_item" => fs' = fs)
          /\ (lastOp' \in GuardOps \cup {"new", "drop_listener"} => io' = "none")
          /\ (lastOp' \in GuardOps => cbArgs' = <<>>)
          /\ (lastOp' \in {"new", "drop_listener"} => lockState' = "none" /\ hash' = 0)]_vars

\* a mutable access has changed the value of a store whose file does not
\* hold it, and no callback has run
C12_Witness ==
    /\ SowStore
    /\ GuardOpen
    /\ lastOp = "deref_mut"
    /\ Hash(item) # Hash(openItem)
    /\ cbArgs = <<>>
    /\ fs[method.pth] # SavedFile

\* C13: while a guard of the listener is live no second guard can be taken
\* (lock is not enabled, and no lock step starts from such a state); lock is
\* possible again once the guard's exit, with its one change check and
\* possible callback, has completed.
C13_OneGuardAtATime ==
    /\ (GuardOpen => ~ENABLED Lock)
    /\ (lastOp = "lock" => GuardOpen /\ dropChecks = 0 /\ cbArgs = <<>>)
    /\ ((GuardClosed /\ status = "running") => (ENABLED Lock /\ dropChecks = 1))

\* the guard has been used and is still live: lock is refused
C13_Witness ==
    /\ GuardOpen
    /\ lastOp = "deref_mut"
    /\ status = "running"
    /\ ~ENABLED Lock

\* C14: possible_change is false when the guard is created, true after a
\* mutable access whether or not a different value was stored, left alone by
\* read access and by the two queries, and never goes back to false while the
\* guard lives; detected_possible_change() returns the flag.
C14_PossibleChangeFlag ==
    [][/\ (lastOp' = "lock" => ~possible_change')
       /\ (lastOp' = "deref_mut" => possible_change')
       /\ (lastOp' \in {"deref", "detected_change", "detected_possible_change"} =>
              possible_change' = possible_change)
       /\ ((GuardOpen /\ possible_change /\ lastOp' # "lock") => possible_change')
       /\ (lastOp' = "detected_possible_change" => result' = BoolStr(possible_change))
       /\ (GuardOpen' => possible_change' = mutAccess')]_vars

\* the flag is reported true after a mutable access that stored nothing new
C14_Witness ==
    /\ GuardOpen
    /\ lastOp = "detected_possible_change"
    /\ result = "true"
    /\ mutAccess
    /\ ~wrote

\* C16: detection compares hashes only.  When a guard took mutable access
\* and the value at exit differs in content from the value at guard creation
\* but has the same hash, detected_change() is false and the exit invokes no
\* callback: the file is not written.
C16_CollisionSuppressesSave ==
    [][(GuardOpen /\ mutAccess /\ item # openItem /\ Hash(item) = Hash(openItem)) =>
          /\ ~detected_change(possible_change, hash, item)
          /\ (lastOp' = "detected_change" => result' = "false")
          /\ (lastOp' = "drop" => cbArgs' = <<>> /\ io' = "none" /\ fs' = fs)]_vars

\* a store left with a file that holds the old value after the value changed
C16_Witness ==
    /\ SowStore
    /\ GuardClosed
    /\ lastOp = "drop"
    /\ mutAccess
    /\ item # openItem
    /\ Hash(item) = Hash(openItem)
    /\ Encode(item).ok
    /\ cbArgs = <<>>
    /\ Decode(fs[method.pth].bytes) = [ok |-> TRUE, value |-> openItem]

\* C15: the baseline of a guard is the hash of the item as it was when that
\* guard was created: no access or query changes it, and a new guard hashes
\* the item again.  Hence when one scope changed A to B and invoked the
\* callback (one that leaves the item alone), and the next scope exits with
\* the item back at A, that exit invokes the callback too.
C15_FreshBaselinePerGuard ==
    [][/\ ((GuardOpen /\ GuardOpen') => hash' = hash)
       /\ (GuardOpen' => hash' = Hash(openItem'))
       /\ (lastOp' = "lock" => openItem' = item)
       /\ ((GuardOpen /\ method.kind # "modify" /\ prevOpen = <<item>>
            /\ lastOp' = "drop") => cbArgs' = <<item>>)]_vars

\* the second of two such scopes has exited and has invoked the callback
C15_Witness ==
    /\ GuardClosed
    /\ lastOp = "drop"
    /\ method.kind = "nop"
    /\ prevOpen = <<item>>
    /\ cbArgs = <<item>>
    /\ item # openItem

FileInSync == Decode(fs[method.pth].bytes) = [ok |-> TRUE, value |-> item]

\* C17 (as claimed): for a SoW store, as long as no hash collision has
\* suppressed a save and no write to its path has failed, the file decodes to
\* the value in memory in every state where no guard is live.
C17_Claim_FileInSync ==
    (SowStore /\ ~GuardOpen /\ hist = "clean") => FileInSync

\* C18 (as claimed): a failed save write leaves a stale value in the file,
\* and a later scope that leaves the hash unchanged writes nothing.
C18_Claim_FileHoldsStaleValue ==
    [][(SowStore /\ GuardOpen /\ lastOp' = "drop") =>
          /\ (io' = "write_failed" =>
                /\ Decode(fs'[method.pth].bytes).ok
                /\ Decode(fs'[method.pth].bytes).value # item')
          /\ (Hash(item) = Hash(openItem) => fs' = fs)]_vars

\* what a failed write of b can leave of file f
LeftByFailedWrite(f, b) == {f} \cup {FileOf(SubSeq(b, 1, k)) : k \in 0..(Len(b) - 1)}

\* C18 (amended): a failed save write leaves the file with its old content
\* or with a truncated or partial encoding of the new value, and nothing
\* retries it: a later scope that leaves the hash unchanged writes nothing
\* and leaves the file as it is, a guard exit changing the file only when the
\* hash changed.
C18_NoRetryAfterFailedSave ==
    [][(SowStore /\ GuardOpen /\ lastOp' = "drop") =>
          /\ (io' = "write_failed" =>
                /\ hist' = "save_failed"
                /\ cbArgs' = <<item>>
                /\ fs'[method.pth] \in LeftByFailedWrite(fs[method.pth], Encode(item).bytes))
          /\ (Hash(item) = Hash(openItem) =>
                fs' = fs /\ io' = "none" /\ cbArgs' = <<>> /\ hist' \in {hist, "unclean"})
          /\ (fs' # fs => mutAccess /\ Hash(item) # Hash(openItem))]_vars

\* after a failed save a scope with a no-op mutation has exited, and the file
\* is still what the failed write left: it does not decode
C18_Witness ==
    /\ SowStore
    /\ GuardClosed
    /\ lastOp = "drop"
    /\ hist = "save_failed"
    /\ mutAccess
    /\ item = openItem
    /\ io = "none"
    /\ cbArgs = <<>>
    /\ ~Decode(fs[method.pth].bytes).ok

\* C19: the callback is handed the item mutably and what it stores there is
\* not checked: the exit that invoked it invokes it once, keeps its result,
\* and the next guard takes its baseline from the item as the callback left
\* it; a later scope that leaves the hash at that baseline invokes nothing.
C19_CallbackWriteNotChecked ==
    [][/\ ((GuardOpen /\ lastOp' = "drop" /\ mutAccess /\ Hash(item) # Hash(openItem)) =>
              /\ cbArgs' = <<item>>
              /\ item' = CallMethod(method, item, fs, 0).item)
       /\ (lastOp' = "lock" => openItem' = item /\ hash' = Hash(item))
       /\ ((GuardOpen /\ hist = "cb_modified" /\ Hash(item) = Hash(openItem)
            /\ lastOp' = "drop") =>
              cbArgs' = <<>> /\ item' = item)]_vars

\* a callback changed the item in an earlier scope; a later scope took
\* mutable access, left the hash alone and exited without a callback
C19_Witness ==
    /\ store = "listener"
    /\ method.kind = "modify"
    /\ hist = "cb_modified"
    /\ GuardClosed
    /\ lastOp = "drop"
    /\ mutAccess
    /\ cbArgs = <<>>

====
